---- MODULE Spec2Model ----
(***************************************************************************)
(* Model of hr_allocation_flask_app.py: the session-authentication         *)
(* handlers (register, login, who-am-I, logout, dashboard), the three      *)
(* stores (User, Project, Resource) and the utilization statistics.        *)
(*                                                                         *)
(* Flask's default session is a cookie signed with SECRET_KEY: the server  *)
(* keeps no session table, the whole session dict travels in the cookie.   *)
(* Each client owns a cookie jar; a client may also keep a copy of a       *)
(* cookie it once held and present it again later.                         *)
(***************************************************************************)
EXTENDS Integers, Sequences, FiniteSets, TLC

VARIABLES
    users,      \* the User table, in insertion order
    projects,   \* the Project table
    resources,  \* the Resource table
    jar,        \* jar[c]: the session cookie client c holds
    kept,       \* a copy of a session cookie, who kept it, and whether logout
                \* has been processed for the session it was copied from
    last,       \* the request handled last
    resp,       \* the response to it
    phase,      \* phase[c]: "never" logged in, logged "in", or logged "out"
    pending     \* pending[c]: the request of c that is being handled one
                \* database statement at a time, if any

vars == <<users, projects, resources, jar, kept, last, resp, phase, pending>>

(***************************************************************************)
(* Bounds and input domains                                                *)
(***************************************************************************)
\* longest Resource table of the statistics specification
MaxRes == 3
\* largest Project count of the statistics specification
MaxProj == 2

Clients == {"c1", "c2"}

\* Python's None and '' are both falsy for a request field: "" stands for either
None == ""
Names == {None, "Ada"}
Emails == {None, "john@example.com", "ada@example.com"}
Passwords == {None, "password", "hunter2"}
Positions == {None, "Tester"}
Salts == {"s1"}

\* values datetime.utcnow() takes while requests are served (the seeding ran
\* at times 1..3)
Times == {4, 5}

\* availabilities the Resource.availability column can hold (unvalidated Integer)
AvailSet == {-10, 0, 1, 20, 50, 99, 100, 150}

(***************************************************************************)
(* Python / library helpers                                                *)
(***************************************************************************)
\* truthiness of a request field: `name and email and password`
Truthy(v) == v # None

\* session.get('user_id') yields None when the key is absent; `not uid` is
\* true for None (and for 0, which no primary key takes)
NoneId == 0

RECURSIVE SumSeq(_)
SumSeq(s) == IF s = <<>> THEN 0 ELSE Head(s) + SumSeq(Tail(s))

RECURSIVE MaxId(_)
MaxId(s) == IF s = <<>> THEN 0
            ELSE LET m == MaxId(Tail(s)) IN IF Head(s).id > m THEN Head(s).id ELSE m

\* werkzeug.security: a salted hash; verification recomputes the digest with
\* the stored salt
generate_password_hash(password, salt) ==
    [method |-> "pbkdf2:sha256", salt |-> salt, digest |-> <<salt, password>>]

\* variant of check_password_hash that accepts every password
check_password_hash_always(pwhash, password) == TRUE

check_password_hash(pwhash, password) == pwhash.digest = <<pwhash.salt, password>>

\* the value of a password_hash column that holds the password itself
Plain(password) == [method |-> "plain", salt |-> None, digest |-> <<password>>]

(***************************************************************************)
(* Flask session: a dict carried in a signed cookie                        *)
(***************************************************************************)
SECRET_KEY == "dev-secret-key"

\* the session dict as a set of <<key, value>> pairs
EmptySession == {}

session_get(s, k) ==
    IF \E p \in s : p[1] = k THEN (CHOOSE p \in s : p[1] = k)[2] ELSE NoneId

session_pop(s, k) == {p \in s : p[1] # k}

session_set(s, k, v) == session_pop(s, k) \cup {<<k, v>>}

NoCookie == [payload |-> EmptySession, sig |-> "none"]

\* a cookie an outsider builds without the secret key
ForgedCookie == [payload |-> {<<"user_id", 1>>}, sig |-> "forged"]

\* open_session: the payload of a cookie whose signature verifies, else an
\* empty session
open_session(cookie) ==
    IF cookie.sig = SECRET_KEY THEN cookie.payload ELSE EmptySession

\* save_session: an unmodified session sends no Set-Cookie; a modified empty
\* session deletes the cookie; a modified non-empty one is signed with the key
save_session(cookie, sess, modified) ==
    IF ~modified THEN cookie
    ELSE IF sess = EmptySession THEN NoCookie
    ELSE [payload |-> sess, sig |-> SECRET_KEY]

(***************************************************************************)
(* Models                                                                  *)
(***************************************************************************)
\* date.isoformat() / datetime.isoformat(): the text form of a date or time
isoformat(t) == <<"iso", t>>

\* a nullable Date column that holds no date
NoDate == <<>>

User(id, name, email, password_hash, position, created_at) ==
    [id |-> id, name |-> name, email |-> email, password_hash |-> password_hash,
     position |-> position, created_at |-> created_at]

\* variant of User_to_dict that serialises every column of the row
User_to_dict_with_hash(u) ==
    [id |-> u.id, name |-> u.name, email |-> u.email, position |-> u.position,
     createdAt |-> isoformat(u.created_at), password_hash |-> u.password_hash]

User_to_dict(u) ==
    [id |-> u.id, name |-> u.name, email |-> u.email, position |-> u.position,
     createdAt |-> isoformat(u.created_at)]

Project(id, name, manager, start_date, end_date, status, updated_at) ==
    [id |-> id, name |-> name, manager |-> manager, start_date |-> start_date,
     end_date |-> end_date, status |-> status, updated_at |-> updated_at]

Project_to_dict(p) ==
    [id |-> p.id, name |-> p.name, manager |-> p.manager,
     startDate |-> IF p.start_date # NoDate THEN isoformat(p.start_date) ELSE NoDate,
     endDate |-> IF p.end_date # NoDate THEN isoformat(p.end_date) ELSE NoDate,
     status |-> p.status, updatedAt |-> isoformat(p.updated_at)]

Resource_to_dict(r) ==
    [id |-> r.id, name |-> r.name, position |-> r.position,
     availability |-> r.availability, currentProject |-> r.current_project]

Resource(id, name, position, availability, current_project) ==
    [id |-> id, name |-> name, position |-> position, availability |-> availability,
     current_project |-> current_project]

\* User.query.filter_by(email=email).first(), as a sequence of 0 or 1 rows
User_by_email(us, email) ==
    LET m == SelectSeq(us, LAMBDA u : u.email = email)
    IN  IF m = <<>> THEN <<>> ELSE <<Head(m)>>

\* User.query.get(uid)
User_get(us, uid) ==
    LET m == SelectSeq(us, LAMBDA u : u.id = uid)
    IN  IF m = <<>> THEN <<>> ELSE <<Head(m)>>

(***************************************************************************)
(* Database initialisation                                                 *)
(***************************************************************************)
SeedUsers ==
    <<User(1, "Babafemi Oyindamola", "john@example.com",
           generate_password_hash("password", "s1"), "Project Manager", 1)>>

SeedProjects ==
    <<Project(1, "E-commerce Platform", "Babafemi Oyindamola", <<2023, 3, 15>>,
              <<2023, 9, 30>>, "active", 1),
      Project(2, "Mobile Banking App", "Akinleye Tolu", <<2023, 5, 1>>,
              <<2023, 11, 15>>, "active", 2),
      Project(3, "CRM System", "Oluleye Philip", <<2023, 1, 10>>,
              <<2023, 7, 31>>, "completed", 3)>>

SeedResources ==
    <<Resource(1, "Benjamin Godswill", "Project Manager", 0, "E-commerce Platform"),
      Resource(2, "Akinleye Tolu", "Senior Developer", 20, "Mobile Banking App"),
      Resource(3, "Oluleye Philip", "UX Designer", 0, "CRM System")>>

\* variant of init_db with one test for the three stores
init_db_single_guard(us, ps, rs) ==
    [users     |-> IF us = <<>> THEN SeedUsers ELSE us,
     projects  |-> IF us = <<>> THEN ps \o SeedProjects ELSE ps,
     resources |-> IF us = <<>> THEN rs \o SeedResources ELSE rs]

\* each store is seeded only when it holds no row
init_db(us, ps, rs) ==
    [users     |-> IF us = <<>> THEN SeedUsers ELSE us,
     projects  |-> IF ps = <<>> THEN SeedProjects ELSE ps,
     resources |-> IF rs = <<>> THEN SeedResources ELSE rs]

(***************************************************************************)
(* Responses                                                               *)
(***************************************************************************)
Json(status, success, message, data) ==
    [status |-> status, success |-> success, message |-> message, data |-> data,
     body |-> "json"]

Html(template) ==
    [status |-> 200, success |-> TRUE, message |-> "", data |-> <<>>, body |-> template]

NoResponse == [status |-> 0, success |-> FALSE, message |-> "", data |-> <<>>,
               body |-> "none"]

(***************************************************************************)
(* Handlers, as functions of the stores, the request's session and body    *)
(***************************************************************************)
\* variant of api_register that omits the lookup of the email before the insert
api_register_unchecked(us, data, salt, now) ==
    LET position == IF Truthy(data.position) THEN data.position ELSE "Developer"
        user == User(MaxId(us) + 1, data.name, data.email,
                     generate_password_hash(data.password, salt), position, now)
    IN  IF ~(Truthy(data.name) /\ Truthy(data.email) /\ Truthy(data.password))
        THEN [resp |-> Json(400, FALSE, "Name, email and password are required", <<>>),
              users |-> us]
        ELSE [resp |-> Json(200, TRUE, "", <<User_to_dict(user)>>),
              users |-> Append(us, user)]

\* variant of api_register that requires only name and email
api_register_no_password_check(us, data, salt, now) ==
    LET position == IF Truthy(data.position) THEN data.position ELSE "Developer"
        user == User(MaxId(us) + 1, data.name, data.email,
                     generate_password_hash(data.password, salt), position, now)
    IN  IF ~(Truthy(data.name) /\ Truthy(data.email))
        THEN [resp |-> Json(400, FALSE, "Name, email and password are required", <<>>),
              users |-> us]
        ELSE IF User_by_email(us, data.email) # <<>>
        THEN [resp |-> Json(400, FALSE, "Email already registered", <<>>),
              users |-> us]
        ELSE [resp |-> Json(200, TRUE, "", <<User_to_dict(user)>>),
              users |-> Append(us, user)]

\* variant of api_register that stores the password as it was sent
api_register_plaintext(us, data, salt, now) ==
    LET position == IF Truthy(data.position) THEN data.position ELSE "Developer"
        user == User(MaxId(us) + 1, data.name, data.email, Plain(data.password),
                     position, now)
    IN  IF ~(Truthy(data.name) /\ Truthy(data.email) /\ Truthy(data.password))
        THEN [resp |-> Json(400, FALSE, "Name, email and password are required", <<>>),
              users |-> us]
        ELSE IF User_by_email(us, data.email) # <<>>
        THEN [resp |-> Json(400, FALSE, "Email already registered", <<>>),
              users |-> us]
        ELSE [resp |-> Json(200, TRUE, "", <<User_to_dict(user)>>),
              users |-> Append(us, user)]

\* POST /api/auth/register
api_register(us, data, salt, now) ==
    LET position == IF Truthy(data.position) THEN data.position ELSE "Developer"
        user == User(MaxId(us) + 1, data.name, data.email,
                     generate_password_hash(data.password, salt), position, now)
    IN  IF ~(Truthy(data.name) /\ Truthy(data.email) /\ Truthy(data.password))
        THEN [resp |-> Json(400, FALSE, "Name, email and password are required", <<>>),
              users |-> us]
        ELSE IF User_by_email(us, data.email) # <<>>
        THEN [resp |-> Json(400, FALSE, "Email already registered", <<>>),
              users |-> us]
        ELSE [resp |-> Json(200, TRUE, "", <<User_to_dict(user)>>),
              users |-> Append(us, user)]

\* variant of api_login that answers an unknown email with its own error
api_login_leaky(us, sess, data) ==
    LET found == User_by_email(us, data.email)
    IN  IF ~(Truthy(data.email) /\ Truthy(data.password))
        THEN [resp |-> Json(400, FALSE, "Email and password required", <<>>),
              session |-> sess, modified |-> FALSE]
        ELSE IF found = <<>>
        THEN [resp |-> Json(404, FALSE, "User not found", <<>>),
              session |-> sess, modified |-> FALSE]
        ELSE IF ~check_password_hash(found[1].password_hash, data.password)
        THEN [resp |-> Json(401, FALSE, "Invalid credentials", <<>>),
              session |-> sess, modified |-> FALSE]
        ELSE [resp |-> Json(200, TRUE, "", <<User_to_dict(found[1])>>),
              session |-> session_set(sess, "user_id", found[1].id),
              modified |-> TRUE]

\* variant of api_login that stores the user id before verifying the password
api_login_sets_early(us, sess, data) ==
    LET found == User_by_email(us, data.email)
    IN  IF ~(Truthy(data.email) /\ Truthy(data.password))
        THEN [resp |-> Json(400, FALSE, "Email and password required", <<>>),
              session |-> sess, modified |-> FALSE]
        ELSE IF found = <<>>
        THEN [resp |-> Json(401, FALSE, "Invalid credentials", <<>>),
              session |-> sess, modified |-> FALSE]
        ELSE IF ~check_password_hash(found[1].password_hash, data.password)
        THEN [resp |-> Json(401, FALSE, "Invalid credentials", <<>>),
              session |-> session_set(sess, "user_id", found[1].id),
              modified |-> TRUE]
        ELSE [resp |-> Json(200, TRUE, "", <<User_to_dict(found[1])>>),
              session |-> session_set(sess, "user_id", found[1].id),
              modified |-> TRUE]

\* variant of api_login that does not verify the password
api_login_any_password(us, sess, data) ==
    LET found == User_by_email(us, data.email)
    IN  IF ~(Truthy(data.email) /\ Truthy(data.password))
        THEN [resp |-> Json(400, FALSE, "Email and password required", <<>>),
              session |-> sess, modified |-> FALSE]
        ELSE IF found = <<>>
        THEN [resp |-> Json(401, FALSE, "Invalid credentials", <<>>),
              session |-> sess, modified |-> FALSE]
        ELSE [resp |-> Json(200, TRUE, "", <<User_to_dict(found[1])>>),
              session |-> session_set(sess, "user_id", found[1].id),
              modified |-> TRUE]

\* variant of api_login that stores an id one above the user's
api_login_wrong_id(us, sess, data) ==
    LET found == User_by_email(us, data.email)
    IN  IF ~(Truthy(data.email) /\ Truthy(data.password))
        THEN [resp |-> Json(400, FALSE, "Email and password required", <<>>),
              session |-> sess, modified |-> FALSE]
        ELSE IF found = <<>> \/ ~check_password_hash(found[1].password_hash, data.password)
        THEN [resp |-> Json(401, FALSE, "Invalid credentials", <<>>),
              session |-> sess, modified |-> FALSE]
        ELSE [resp |-> Json(200, TRUE, "", <<User_to_dict(found[1])>>),
              session |-> session_set(sess, "user_id", found[1].id + 1),
              modified |-> TRUE]

\* variant of api_login that keeps the user id a session already holds
api_login_keeps_first(us, sess, data) ==
    LET found == User_by_email(us, data.email)
    IN  IF ~(Truthy(data.email) /\ Truthy(data.password))
        THEN [resp |-> Json(400, FALSE, "Email and password required", <<>>),
              session |-> sess, modified |-> FALSE]
        ELSE IF found = <<>> \/ ~check_password_hash(found[1].password_hash, data.password)
        THEN [resp |-> Json(401, FALSE, "Invalid credentials", <<>>),
              session |-> sess, modified |-> FALSE]
        ELSE IF session_get(sess, "user_id") # NoneId
        THEN [resp |-> Json(200, TRUE, "", <<User_to_dict(found[1])>>),
              session |-> sess, modified |-> FALSE]
        ELSE [resp |-> Json(200, TRUE, "", <<User_to_dict(found[1])>>),
              session |-> session_set(sess, "user_id", found[1].id),
              modified |-> TRUE]

\* POST /api/auth/login
api_login(us, sess, data) ==
    LET found == User_by_email(us, data.email)
    IN  IF ~(Truthy(data.email) /\ Truthy(data.password))
        THEN [resp |-> Json(400, FALSE, "Email and password required", <<>>),
              session |-> sess, modified |-> FALSE]
        ELSE IF found = <<>> \/ ~check_password_hash(found[1].password_hash, data.password)
        THEN [resp |-> Json(401, FALSE, "Invalid credentials", <<>>),
              session |-> sess, modified |-> FALSE]
        ELSE [resp |-> Json(200, TRUE, "", <<User_to_dict(found[1])>>),
              session |-> session_set(sess, "user_id", found[1].id),
              modified |-> TRUE]

\* variant of api_me that returns the first row of the table
api_me_first(us, sess) ==
    LET uid == session_get(sess, "user_id")
        found == IF us = <<>> THEN <<>> ELSE <<Head(us)>>
    IN  IF uid = NoneId
        THEN Json(401, FALSE, "Not authenticated", <<>>)
        ELSE IF found = <<>>
        THEN Json(404, FALSE, "User not found", <<>>)
        ELSE Json(200, TRUE, "", <<User_to_dict(found[1])>>)

\* GET /api/auth/me
api_me(us, sess) ==
    LET uid == session_get(sess, "user_id")
        found == User_get(us, uid)
    IN  IF uid = NoneId
        THEN Json(401, FALSE, "Not authenticated", <<>>)
        ELSE IF found = <<>>
        THEN Json(404, FALSE, "User not found", <<>>)
        ELSE Json(200, TRUE, "", <<User_to_dict(found[1])>>)

\* variant of api_logout that pops a key the session never holds
api_logout_wrong_key(sess) ==
    [resp |-> Json(200, TRUE, "", <<>>), session |-> session_pop(sess, "user"),
     modified |-> session_pop(sess, "user") # sess]

\* variant of api_logout that pops without a default: KeyError, hence a 500
\* response, when the session holds no user_id
api_logout_no_default(sess) ==
    IF session_get(sess, "user_id") = NoneId
    THEN [resp |-> [status |-> 500, success |-> FALSE, message |-> "", data |-> <<>>,
                    body |-> "html"],
          session |-> sess, modified |-> FALSE]
    ELSE [resp |-> Json(200, TRUE, "", <<>>), session |-> session_pop(sess, "user_id"),
          modified |-> TRUE]

\* POST /api/auth/logout
\* (dict.pop marks the session modified only when the key was there)
api_logout(sess) ==
    [resp |-> Json(200, TRUE, "", <<>>), session |-> session_pop(sess, "user_id"),
     modified |-> session_pop(sess, "user_id") # sess]

\* GET /dashboard: the template is rendered whatever the session holds
dashboard_page(sess) == Html("DASH_HTML")

(***************************************************************************)
(* Listings                                                                *)
(***************************************************************************)
\* variant of order_by_updated_at_desc that sorts by ascending timestamp
order_by_updated_at_asc(ps) ==
    {[i \in DOMAIN ps |-> ps[f[i]]] : f \in
        {g \in Permutations(DOMAIN ps) :
            \A i \in DOMAIN ps \ {Len(ps)} :
                ps[g[i]].updated_at <= ps[g[i + 1]].updated_at}}

\* Project.query.order_by(Project.updated_at.desc()).all(): the orders in
\* which the query can return the rows.  ORDER BY fixes the order of rows
\* with different timestamps only; rows updated at the same time may come in
\* either order.
order_by_updated_at_desc(ps) ==
    {[i \in DOMAIN ps |-> ps[f[i]]] : f \in
        {g \in Permutations(DOMAIN ps) :
            \A i \in DOMAIN ps \ {Len(ps)} :
                ps[g[i]].updated_at >= ps[g[i + 1]].updated_at}}

\* GET /api/projects, given the rows as the query returned them
api_get_projects(sorted) ==
    Json(200, TRUE, "", [i \in DOMAIN sorted |-> Project_to_dict(sorted[i])])

\* variant of api_get_resources that lists the newest row first
api_get_resources_newest_first(rs) ==
    Json(200, TRUE, "", [i \in DOMAIN rs |-> Resource_to_dict(rs[Len(rs) + 1 - i])])

\* GET /api/resources
api_get_resources(rs) ==
    Json(200, TRUE, "", [i \in 1..Len(rs) |-> Resource_to_dict(rs[i])])

\* GET /api/reports: two mock reports stamped with the time of the call
api_get_reports(now1, now2) ==
    Json(200, TRUE, "",
         <<[id |-> 1, name |-> "Q2 Resource Utilization", generatedBy |-> "System",
            createdAt |-> isoformat(now1), type |-> "Resource Utilization"],
           [id |-> 2, name |-> "Project Progress - May 2023",
            generatedBy |-> "Benjamin Godswill", createdAt |-> isoformat(now2),
            type |-> "Project Progress"]>>)

(***************************************************************************)
(* Utilization statistics                                                  *)
(***************************************************************************)
\* Python 3 round(num / den) for den > 0: the nearest integer, a tie going to
\* the even neighbour
py_round(num, den) ==
    LET q == num \div den
        r == num % den
    IN  IF 2 * r < den THEN q
        ELSE IF 2 * r > den THEN q + 1
        ELSE IF q % 2 = 0 THEN q ELSE q + 1

\* variant of count_allocated with <= for <
count_allocated_le(rs) == Len(SelectSeq(rs, LAMBDA r : r.availability <= 100))

\* Resource.query.filter(Resource.availability<100).count()
count_allocated(rs) == Len(SelectSeq(rs, LAMBDA r : r.availability < 100))

\* variant of count_available with >= for >
count_available_ge(rs) == Len(SelectSeq(rs, LAMBDA r : r.availability >= 0))

\* Resource.query.filter(Resource.availability>0).count()
count_available(rs) == Len(SelectSeq(rs, LAMBDA r : r.availability > 0))

\* variant of count_overallocated with < for <=
count_overallocated_lt(rs) == Len(SelectSeq(rs, LAMBDA r : r.availability < 0))

\* Resource.query.filter(Resource.availability<=0).count()
count_overallocated(rs) == Len(SelectSeq(rs, LAMBDA r : r.availability <= 0))

\* avg_util = 0; if resources: avg_util = round(sum(100 - r.availability) / len)
average_utilization(rs) ==
    IF rs # <<>>
    THEN py_round(SumSeq([i \in 1..Len(rs) |-> 100 - rs[i].availability]), Len(rs))
    ELSE 0

\* variant of api_resource_stats that divides without the `if resources` test:
\* on an empty table the ZeroDivisionError becomes a 500 response
api_resource_stats_unguarded(rs, ps) ==
    IF rs = <<>>
    THEN [status |-> 500, success |-> FALSE, message |-> "Internal Server Error",
          data |-> <<>>, body |-> "html"]
    ELSE Json(200, TRUE, "",
              <<[totalResources     |-> Len(rs),
                 allocatedResources |-> count_allocated(rs),
                 availableResources |-> count_available(rs),
                 averageUtilization |-> average_utilization(rs),
                 overallocated      |-> count_overallocated(rs),
                 totalProjects      |-> Len(ps)]>>)

\* GET /api/resources/stats/utilization
api_resource_stats(rs, ps) ==
    Json(200, TRUE, "",
         <<[totalResources     |-> Len(rs),
            allocatedResources |-> count_allocated(rs),
            availableResources |-> count_available(rs),
            averageUtilization |-> average_utilization(rs),
            overallocated      |-> count_overallocated(rs),
            totalProjects      |-> Len(ps)]>>)

(***************************************************************************)
(* The running application: requests of the clients, one at a time         *)
(***************************************************************************)
NoData == [name |-> None, email |-> None, password |-> None, position |-> None]

Request(op, c, via, cookie, data) ==
    [op |-> op, client |-> c, via |-> via, cookie |-> cookie, data |-> data]

\* the cookie a request carries: the jar's, a kept copy, or a forged one
Presented(c, via) ==
    IF via = "jar" THEN jar[c] ELSE IF via = "kept" THEN kept.cookie ELSE ForgedCookie

Vias == {"jar", "forged"} \cup (IF kept.cookie # NoCookie THEN {"kept"} ELSE {})

NothingKept == [cookie |-> NoCookie, by |-> "c1", stale |-> FALSE]

\* no request in flight: pc is the handler's position, data the request
\* body, passed whether the register request passed the email lookup, acc
\* the values the statistics queries returned so far, snap the
\* tables as the first query found them, raced whether an insert was
\* committed between the first and the last query, resp the response
Idle == [pc |-> "idle", data |-> NoData, passed |-> FALSE, acc |-> <<>>,
         snap |-> [resources |-> <<>>, projects |-> <<>>],
         raced |-> FALSE, resp |-> NoResponse]

Init ==
    LET db == init_db(<<>>, <<>>, <<>>)
    IN  /\ users = db.users
        /\ projects = db.projects
        /\ resources = db.resources
        /\ jar = [c \in Clients |-> NoCookie]
        /\ kept = NothingKept
        /\ last = Request("start", "c1", "jar", NoCookie, NoData)
        /\ resp = NoResponse
        /\ phase = [c \in Clients |-> "never"]
        /\ pending = [c \in Clients |-> Idle]

\* every JSON body of a register request
Bodies == [name : Names, email : Emails, password : Passwords, position : Positions]

\* the bodies the clients send: a position goes with complete bodies only
RegisterBodies ==
    {d \in Bodies : Truthy(d.position)
                       => Truthy(d.name) /\ Truthy(d.email) /\ Truthy(d.password)}

\* the times the clock of a register request can show: only the insert reads
\* the clock (the column default), so a refused request has one outcome
InsertTimes(us, data) ==
    IF \A salt \in Salts : ~api_register(us, data, salt, 0).resp.success
    THEN {CHOOSE t \in Times : \A u \in Times : t <= u}
    ELSE Times

\* variant of Register that signs the caller in as the account it created
Register_signing_in(c) ==
    \E data \in RegisterBodies, salt \in Salts :
      \E now \in InsertTimes(users, data) :
        LET r == api_register(users, data, salt, now)
        IN  /\ users' = r.users
            /\ resp' = r.resp
            /\ last' = Request("register", c, "jar", jar[c], data)
            /\ jar' = IF r.resp.success
                      THEN [jar EXCEPT ![c] =
                              [payload |-> {<<"user_id", r.resp.data[1].id>>},
                               sig |-> SECRET_KEY]]
                      ELSE jar
            /\ UNCHANGED <<pending, projects, resources, kept, phase>>

\* variant of Register that adds a Resource row for the account it created
Register_staffing(c) ==
    \E data \in RegisterBodies, salt \in Salts :
      \E now \in InsertTimes(users, data) :
        LET r == api_register(users, data, salt, now)
        IN  /\ users' = r.users
            /\ resp' = r.resp
            /\ last' = Request("register", c, "jar", jar[c], data)
            /\ resources' = IF r.resp.success
                            THEN Append(resources,
                                        Resource(MaxId(resources) + 1, data.name,
                                                 "Developer", 100, None))
                            ELSE resources
            /\ UNCHANGED <<pending, projects, jar, kept, phase>>

Register(c) ==
    \E data \in RegisterBodies, salt \in Salts :
      \E now \in InsertTimes(users, data) :
        LET r == api_register(users, data, salt, now)
        IN  /\ users' = r.users
            /\ resp' = r.resp
            /\ last' = Request("register", c, "jar", jar[c], data)
            /\ UNCHANGED <<pending, projects, resources, jar, kept, phase>>

Login(c) ==
    \E email \in Emails, password \in Passwords :
        LET data == [NoData EXCEPT !.email = email, !.password = password]
            sess == open_session(jar[c])
            r == api_login(users, sess, data)
        IN  /\ jar' = [jar EXCEPT ![c] = save_session(jar[c], r.session, r.modified)]
            /\ resp' = r.resp
            /\ last' = Request("login", c, "jar", jar[c], data)
            /\ phase' = IF r.resp.success THEN [phase EXCEPT ![c] = "in"] ELSE phase
            /\ UNCHANGED <<pending, users, projects, resources, kept>>

\* variant of Me that ends the caller's session once it has answered
Me_dropping(c) ==
    \E via \in Vias :
        /\ resp' = api_me(users, open_session(Presented(c, via)))
        /\ last' = Request("me", c, via, Presented(c, via), NoData)
        /\ jar' = [jar EXCEPT ![c] = NoCookie]
        /\ UNCHANGED <<pending, users, projects, resources, kept, phase>>

Me(c) ==
    \E via \in Vias :
        /\ resp' = api_me(users, open_session(Presented(c, via)))
        /\ last' = Request("me", c, via, Presented(c, via), NoData)
        /\ UNCHANGED <<pending, users, projects, resources, jar, kept, phase>>

\* variant of Logout that ends every session of the caller's user
Logout_everywhere(c) ==
    LET sess == open_session(jar[c])
        uid == session_get(sess, "user_id")
    IN  /\ jar' = [o \in Clients |->
                     IF session_get(open_session(jar[o]), "user_id") = uid
                     THEN NoCookie ELSE jar[o]]
        /\ resp' = api_logout(sess).resp
        /\ last' = Request("logout", c, "jar", jar[c], NoData)
        /\ phase' = [phase EXCEPT ![c] = "out"]
        /\ kept' = IF kept.by = c /\ kept.cookie # NoCookie /\ kept.cookie = jar[c]
                   THEN [kept EXCEPT !.stale = TRUE] ELSE kept
        /\ UNCHANGED <<pending, users, projects, resources>>

Logout(c) ==
    LET sess == open_session(jar[c])
        r == api_logout(sess)
    IN  /\ jar' = [jar EXCEPT ![c] = save_session(jar[c], r.session, r.modified)]
        /\ resp' = r.resp
        /\ last' = Request("logout", c, "jar", jar[c], NoData)
        /\ phase' = [phase EXCEPT ![c] = "out"]
        /\ kept' = IF kept.by = c /\ kept.cookie # NoCookie /\ kept.cookie = jar[c]
                   THEN [kept EXCEPT !.stale = TRUE] ELSE kept
        /\ UNCHANGED <<pending, users, projects, resources>>

Dashboard(c) ==
    \E via \in Vias :
        /\ resp' = dashboard_page(open_session(Presented(c, via)))
        /\ last' = Request("dashboard", c, via, Presented(c, via), NoData)
        /\ UNCHANGED <<pending, users, projects, resources, jar, kept, phase>>

Stats(c) ==
    /\ resp' = api_resource_stats(resources, projects)
    /\ last' = Request("stats", c, "jar", jar[c], NoData)
    /\ UNCHANGED <<pending, users, projects, resources, jar, kept, phase>>

\* variant of Projects that refuses a caller without a session
Projects_gated(c) ==
    \E sorted \in order_by_updated_at_desc(projects) :
        /\ resp' = IF session_get(open_session(jar[c]), "user_id") = NoneId
                   THEN Json(401, FALSE, "Not authenticated", <<>>)
                   ELSE api_get_projects(sorted)
        /\ last' = Request("projects", c, "jar", jar[c], NoData)
        /\ UNCHANGED <<pending, users, projects, resources, jar, kept, phase>>

Projects(c) ==
    \E sorted \in order_by_updated_at_desc(projects) :
        /\ resp' = api_get_projects(sorted)
        /\ last' = Request("projects", c, "jar", jar[c], NoData)
        /\ UNCHANGED <<pending, users, projects, resources, jar, kept, phase>>

Resources(c) ==
    /\ resp' = api_get_resources(resources)
    /\ last' = Request("resources", c, "jar", jar[c], NoData)
    /\ UNCHANGED <<pending, users, projects, resources, jar, kept, phase>>

Reports(c) ==
    \E now1 \in Times, now2 \in Times :
        /\ now1 <= now2
        /\ resp' = api_get_reports(now1, now2)
        /\ last' = Request("reports", c, "jar", jar[c], NoData)
        /\ UNCHANGED <<pending, users, projects, resources, jar, kept, phase>>

\* the client keeps a copy of the session cookie it holds
KeepCookie(c) ==
    /\ jar[c] # NoCookie
    /\ kept # [cookie |-> jar[c], by |-> c, stale |-> FALSE]
    /\ kept' = [cookie |-> jar[c], by |-> c, stale |-> FALSE]
    /\ last' = Request("keep", c, "jar", jar[c], NoData)
    /\ resp' = NoResponse
    /\ UNCHANGED <<pending, users, projects, resources, jar, phase>>

Next ==
    \E c \in Clients :
        \/ Register(c)
        \/ Login(c)
        \/ Me(c)
        \/ Logout(c)
        \/ Dashboard(c)
        \/ Stats(c)
        \/ Projects(c)
        \/ Resources(c)
        \/ Reports(c)
        \/ KeepCookie(c)

Spec == Init /\ [][Next]_vars

(***************************************************************************)
(* The statistics as a function of the tables: any Resource table of at    *)
(* most MaxRes rows over AvailSet, any Project table of at most MaxProj    *)
(* rows, and the statistics endpoint called on them                        *)
(***************************************************************************)
ResourceTables ==
    {[i \in DOMAIN a |-> Resource(i, "Staff", "Developer", a[i], None)] :
        a \in UNION {[1..n -> AvailSet] : n \in 0..MaxRes}}

ProjectTables ==
    {[i \in 1..n |-> Project(i, "Project", None, NoDate, NoDate, "active", i)] :
        n \in 0..MaxProj}

InitStats ==
    /\ users = SeedUsers
    /\ projects \in ProjectTables
    /\ resources \in ResourceTables
    /\ jar = [c \in Clients |-> NoCookie]
    /\ kept = NothingKept
    /\ last = Request("start", "c1", "jar", NoCookie, NoData)
    /\ resp = NoResponse
    /\ phase = [c \in Clients |-> "never"]
    /\ pending = [c \in Clients |-> Idle]

NextStats == \E c \in Clients : Stats(c)

SpecStats == InitStats /\ [][NextStats]_vars

(***************************************************************************)
(* Who-am-I as a function of the User table and the session: the cookie    *)
(* outlives the database file, so a session may name a row that a          *)
(* replaced or edited database no longer holds                             *)
(***************************************************************************)
ThreeUsers ==
    SeedUsers \o
    <<User(2, "Ada", "ada@example.com", generate_password_hash("hunter2", "s1"),
           "Developer", 4),
      User(3, "Bob", "bob@example.com", generate_password_hash("password", "s1"),
           "Tester", 5)>>

\* every non-empty selection of the three rows
UserTables ==
    {SelectSeq(ThreeUsers, LAMBDA u : u.id \in S) : S \in SUBSET {1, 2, 3} \ {{}}}

\* no cookie, or a cookie the server signed for one of the three ids
SessionCookies ==
    {NoCookie} \cup
    {[payload |-> {<<"user_id", i>>}, sig |-> SECRET_KEY] : i \in {1, 2, 3}}

InitMe ==
    /\ users \in UserTables
    /\ projects = SeedProjects
    /\ resources = SeedResources
    /\ jar \in [Clients -> SessionCookies]
    /\ kept = NothingKept
    /\ last = Request("start", "c1", "jar", NoCookie, NoData)
    /\ resp = NoResponse
    /\ phase = [c \in Clients |-> "never"]
    /\ pending = [c \in Clients |-> Idle]

NextMe == \E c \in Clients : Me(c)

SpecMe == InitMe /\ [][NextMe]_vars

(***************************************************************************)
(* Requests served concurrently: a handler runs one database statement at  *)
(* a time and the statements of two requests interleave.  Each client      *)
(* sends one register or one statistics request.                           *)
(***************************************************************************)
\* the response to an exception no handler catches
InternalServerError ==
    [status |-> 500, success |-> FALSE, message |-> "", data |-> <<>>, body |-> "html"]

\* api_register up to and including the lookup of the email: the refusal, or
\* nothing when the request may go on to the insert
register_check(us, data) ==
    IF ~(Truthy(data.name) /\ Truthy(data.email) /\ Truthy(data.password))
    THEN <<Json(400, FALSE, "Name, email and password are required", <<>>)>>
    ELSE IF User_by_email(us, data.email) # <<>>
    THEN <<Json(400, FALSE, "Email already registered", <<>>)>>
    ELSE <<>>

\* variant of register_insert that adds a Resource row for the new account
register_insert_with_resource(db, data, salt, now) ==
    LET position == IF Truthy(data.position) THEN data.position ELSE "Developer"
        user == User(MaxId(db.users) + 1, data.name, data.email,
                     generate_password_hash(data.password, salt), position, now)
        staff == Resource(MaxId(db.resources) + 1, data.name, position, 100, None)
    IN  IF User_by_email(db.users, data.email) # <<>>
        THEN [resp |-> InternalServerError, db |-> db]
        ELSE [resp |-> Json(200, TRUE, "", <<User_to_dict(user)>>),
              db |-> [db EXCEPT !.users = Append(@, user),
                                !.resources = Append(@, staff)]]

\* api_register from the insert on: db.session.add(user); db.session.commit().
\* The email column is unique: committing a second row for an email raises
\* IntegrityError, which api_register does not catch.
register_insert(db, data, salt, now) ==
    LET position == IF Truthy(data.position) THEN data.position ELSE "Developer"
        user == User(MaxId(db.users) + 1, data.name, data.email,
                     generate_password_hash(data.password, salt), position, now)
    IN  IF User_by_email(db.users, data.email) # <<>>
        THEN [resp |-> InternalServerError, db |-> db]
        ELSE [resp |-> Json(200, TRUE, "", <<User_to_dict(user)>>),
              db |-> [db EXCEPT !.users = Append(@, user)]]

\* the k-th query of api_resource_stats, in the order the handler runs them
stats_query(k, rs, ps) ==
    IF k = 1 THEN Len(rs)
    ELSE IF k = 2 THEN count_allocated(rs)
    ELSE IF k = 3 THEN count_available(rs)
    ELSE IF k = 4 THEN average_utilization(rs)
    ELSE IF k = 5 THEN count_overallocated(rs)
    ELSE Len(ps)

\* the response api_resource_stats builds from the values of its six queries
stats_response(acc) ==
    Json(200, TRUE, "",
         <<[totalResources     |-> acc[1],
            allocatedResources |-> acc[2],
            availableResources |-> acc[3],
            averageUtilization |-> acc[4],
            overallocated      |-> acc[5],
            totalProjects      |-> acc[6]]>>)

RegCheck(c) ==
    /\ pending[c].pc = "idle"
    /\ \E data \in RegisterBodies :
         LET refusal == register_check(users, data)
         IN  pending' = [pending EXCEPT ![c] =
                IF refusal # <<>>
                THEN [@ EXCEPT !.pc = "reg_done", !.data = data, !.resp = refusal[1]]
                ELSE [@ EXCEPT !.pc = "reg_checked", !.data = data, !.passed = TRUE]]
    /\ UNCHANGED <<users, projects, resources, jar, kept, last, resp, phase>>

RegCommit(c) ==
    /\ pending[c].pc = "reg_checked"
    /\ \E salt \in Salts, now \in Times :
         LET db == [users |-> users, projects |-> projects, resources |-> resources]
             r == register_insert(db, pending[c].data, salt, now)
         IN  /\ users' = r.db.users
             /\ projects' = r.db.projects
             /\ resources' = r.db.resources
             /\ pending' = [o \in Clients |->
                   IF o = c THEN [pending[c] EXCEPT !.pc = "reg_done", !.resp = r.resp]
                   ELSE IF pending[o].pc = "stats" /\ r.resp.success
                   THEN [pending[o] EXCEPT !.raced = TRUE]
                   ELSE pending[o]]
    /\ UNCHANGED <<jar, kept, last, resp, phase>>

StatsQuery(c) ==
    /\ pending[c].pc \in {"idle", "stats"}
    /\ LET acc == Append(pending[c].acc,
                         stats_query(Len(pending[c].acc) + 1, resources, projects))
           snap == IF pending[c].pc = "idle"
                   THEN [resources |-> resources, projects |-> projects]
                   ELSE pending[c].snap
       IN  pending' = [pending EXCEPT ![c] =
              IF Len(acc) < 6
              THEN [@ EXCEPT !.pc = "stats", !.acc = acc, !.snap = snap]
              ELSE [@ EXCEPT !.pc = "stats_done", !.acc = acc, !.snap = snap,
                             !.resp = stats_response(acc)]]
    /\ UNCHANGED <<users, projects, resources, jar, kept, last, resp, phase>>

NextRace ==
    \E c \in Clients :
        \/ RegCheck(c)
        \/ RegCommit(c)
        \/ StatsQuery(c)

SpecRace == Init /\ [][NextRace]_vars

(***************************************************************************)
(* The listings as functions of the tables: any Project table of at most   *)
(* MaxProj + 1 rows whose timestamps may coincide, or any Resource table   *)
(* of at most MaxRes rows, and the two list endpoints called on them       *)
(***************************************************************************)
\* values of Project.updated_at
Stamps == {1, 2, 3}

StampedProjectTables ==
    {[i \in DOMAIN t |-> Project(i, "Project", None, NoDate, NoDate, "active", t[i])] :
        t \in UNION {[1..n -> Stamps] : n \in 0..(MaxProj + 1)}}

InitList ==
    /\ users = SeedUsers
    /\ \/ projects \in StampedProjectTables /\ resources = SeedResources
       \/ projects = SeedProjects /\ resources \in ResourceTables
    /\ jar = [c \in Clients |-> NoCookie]
    /\ kept = NothingKept
    /\ last = Request("start", "c1", "jar", NoCookie, NoData)
    /\ resp = NoResponse
    /\ phase = [c \in Clients |-> "never"]
    /\ pending = [c \in Clients |-> Idle]

NextList ==
    \E c \in Clients :
        \/ Projects(c)
        \/ Resources(c)

SpecList == InitList /\ [][NextList]_vars

(***************************************************************************)
(* The API calls of clients that present their own cookie jars             *)
(***************************************************************************)
NextCalls ==
    \E c \in Clients :
        \/ Register(c)
        \/ Login(c)
        \/ Me(c)
        \/ Logout(c)
        \/ Stats(c)
        \/ Projects(c)
        \/ Resources(c)
        \/ Reports(c)

SpecCalls == Init /\ [][NextCalls]_vars

(***************************************************************************)
(* Start-up: the seeding block runs each time the process starts, on       *)
(* whatever the database file holds, and accounts are registered between   *)
(* the runs                                                                *)
(***************************************************************************)
\* the stores a start can find: each one empty or holding rows
StoresAtStart ==
    [users     : {SubSeq(ThreeUsers, 1, n) : n \in 0..2},
     projects  : ProjectTables \cup {SeedProjects},
     resources : {<<>>, <<Resource(1, "Staff", "Developer", 100, None)>>, SeedResources}]

InitSeed ==
    /\ \E db \in StoresAtStart :
         /\ users = db.users
         /\ projects = db.projects
         /\ resources = db.resources
    /\ jar = [c \in Clients |-> NoCookie]
    /\ kept = NothingKept
    /\ last = Request("start", "c1", "jar", NoCookie, NoData)
    /\ resp = NoResponse
    /\ phase = [c \in Clients |-> "never"]
    /\ pending = [c \in Clients |-> Idle]

\* the seeding block of a process start
Seed ==
    LET db == init_db(users, projects, resources)
    IN  /\ users' = db.users
        /\ projects' = db.projects
        /\ resources' = db.resources
        /\ last' = Request("init_db", "c1", "jar", NoCookie, NoData)
        /\ resp' = NoResponse
        /\ UNCHANGED <<pending, jar, kept, phase>>

NextSeed ==
    \/ Seed
    \/ \E c \in Clients : Register(c)

SpecSeed == InitSeed /\ [][NextSeed]_vars

(***************************************************************************)
(* Properties                                                              *)
(***************************************************************************)
StatsData == resp.data[1]

Avail(i) == resources[i].availability

Rows == 1..Len(resources)

\* the session a request carried, as the server reads it
CarriedSession == open_session(last.cookie)

\* C1: a register call whose email is already in the User table (seeded or
\* registered earlier) is answered success=false with status 400 -- with the
\* message 'Email already registered' when name and password are given -- and
\* leaves the User table unchanged, with exactly one row for that email.
C1_RegisterConflict ==
    [][(/\ last'.op = "register"
        /\ Truthy(last'.data.email)
        /\ User_by_email(users, last'.data.email) # <<>>)
       => /\ resp'.success = FALSE
          /\ resp'.status = 400
          /\ users' = users
          /\ Len(SelectSeq(users', LAMBDA u : u.email = last'.data.email)) = 1
          /\ (Truthy(last'.data.name) /\ Truthy(last'.data.password)
                => resp' = Json(400, FALSE, "Email already registered", <<>>))]_vars

\* a register call for an email that an earlier register call added was refused
C1_Witness ==
    /\ last.op = "register"
    /\ last.data.email = "ada@example.com"
    /\ resp = Json(400, FALSE, "Email already registered", <<>>)
    /\ Len(users) = 2

\* C2: a login that fails with both fields present gets the one response
\* 401 'Invalid credentials' and leaves the caller's cookie as it was; and for
\* every email, password and session, a failing login against the User table
\* gives the same response and session as the same login against the table
\* with that email's rows removed.
C2_LoginIndistinguishable ==
    /\ (/\ last.op = "login"
        /\ Truthy(last.data.email) /\ Truthy(last.data.password)
        /\ ~resp.success)
       => /\ resp = Json(401, FALSE, "Invalid credentials", <<>>)
          /\ jar[last.client] = last.cookie
    /\ \A e \in Emails, p \in Passwords, c \in Clients :
        LET data == [NoData EXCEPT !.email = e, !.password = p]
            without == SelectSeq(users, LAMBDA u : u.email # e)
            here == api_login(users, open_session(jar[c]), data)
            there == api_login(without, open_session(jar[c]), data)
        IN  ~here.resp.success => here = there

\* a login with a registered email and a wrong password was refused
C2_Witness ==
    /\ last.op = "login"
    /\ User_by_email(users, last.data.email) # <<>>
    /\ Truthy(last.data.password)
    /\ resp.status = 401

\* C3: a who-am-I call that a client makes with its own cookie jar after its
\* logout and before its next successful login is answered 401 'Not
\* authenticated'.
C3_MeAfterLogout ==
    (last.op = "me" /\ last.via = "jar" /\ phase[last.client] = "out")
        => resp = Json(401, FALSE, "Not authenticated", <<>>)

\* who-am-I was refused for a client that had logged in and then logged out
C3_Witness ==
    /\ last.op = "me" /\ last.via = "jar"
    /\ phase[last.client] = "out"
    /\ kept.by = last.client /\ kept.stale
    /\ resp.status = 401

\* C4: once logout has been processed for a session, a who-am-I request that
\* presents a copy of that session's token kept from before the logout is not
\* authenticated.
C4_LogoutDestroysSession ==
    (last.op = "me" /\ last.via = "kept" /\ kept.stale) => resp.status = 401

\* C5: a request for the dashboard view that carries no valid session (one
\* for which who-am-I answers 401) is not served the dashboard.
C5_DashboardGated ==
    (last.op = "dashboard" /\ api_me(users, CarriedSession).status = 401)
        => resp.body # "DASH_HTML"

\* C6: the statistics are a success response whose totalResources is the
\* number of Resource rows, allocatedResources the number with availability
\* < 100, availableResources the number with availability > 0, overallocated
\* the number with availability <= 0, and totalProjects the number of Project
\* rows.
C6_StatsCounts ==
    last.op = "stats" =>
        /\ resp.success /\ resp.status = 200
        /\ StatsData.totalResources = Cardinality(Rows)
        /\ StatsData.allocatedResources = Cardinality({i \in Rows : Avail(i) < 100})
        /\ StatsData.availableResources = Cardinality({i \in Rows : Avail(i) > 0})
        /\ StatsData.overallocated = Cardinality({i \in Rows : Avail(i) <= 0})
        /\ StatsData.totalProjects = Cardinality(DOMAIN projects)

\* statistics of a table holding a negative, a full and an above-100 availability
C6_Witness ==
    /\ last.op = "stats"
    /\ {-10, 100, 150} \subseteq {Avail(i) : i \in Rows}
    /\ StatsData.allocatedResources = 1
    /\ StatsData.availableResources = 2
    /\ StatsData.totalProjects = 2

\* sum(100 - availability) / n rounded to the nearest integer, a tie going up
RoundHalfUp(num, den) == (2 * num + den) \div (2 * den)

\* C7: for a non-empty Resource table averageUtilization is
\* sum(100 - availability) / totalResources rounded to the nearest integer, a
\* quotient halfway between two integers rounding up.
C7_AverageRoundsHalfUp ==
    (last.op = "stats" /\ resources # <<>>)
        => StatsData.averageUtilization =
              RoundHalfUp(SumSeq([i \in Rows |-> 100 - Avail(i)]), Len(resources))

\* C8: on an empty Resource table the statistics call succeeds with
\* averageUtilization = 0 and all four resource counts 0.
C8_EmptyStats ==
    (last.op = "stats" /\ resources = <<>>)
        => resp = Json(200, TRUE, "",
                       <<[totalResources |-> 0, allocatedResources |-> 0,
                          availableResources |-> 0, averageUtilization |-> 0,
                          overallocated |-> 0, totalProjects |-> Len(projects)]>>)

\* statistics of an empty Resource table next to a non-empty Project table
C8_Witness ==
    /\ last.op = "stats"
    /\ resources = <<>>
    /\ projects # <<>>
    /\ resp.success

\* C9 as stated: overallocated + (rows with availability in 1..99) + (rows
\* with availability = 100) equals totalResources, for every Resource table.
C9_PartitionAsStated ==
    last.op = "stats" =>
        StatsData.overallocated
          + Cardinality({i \in Rows : Avail(i) \in 1..99})
          + Cardinality({i \in Rows : Avail(i) = 100})
        = StatsData.totalResources

\* C9: overallocated + (rows with availability in 1..99) + (rows with
\* availability >= 100) equals totalResources, for every Resource table.
C9_Partition ==
    last.op = "stats" =>
        StatsData.overallocated
          + Cardinality({i \in Rows : Avail(i) \in 1..99})
          + Cardinality({i \in Rows : Avail(i) >= 100})
        = StatsData.totalResources

\* statistics of a table with a zero, a negative and an above-100 availability
C9_Witness ==
    /\ last.op = "stats"
    /\ {-10, 0, 150} \subseteq {Avail(i) : i \in Rows}
    /\ StatsData.overallocated = 2
    /\ StatsData.totalResources = 3

\* the Resource table holds exactly the availabilities 0, 20 and 100
Example_0_20_100 ==
    /\ Len(resources) = 3
    /\ {Avail(i) : i \in Rows} = {0, 20, 100}

\* C10 as stated: for availabilities [0, 20, 100] averageUtilization = 60,
\* allocatedResources = 2, availableResources = 1 and overallocated = 1.
C10_ExampleAsStated ==
    (last.op = "stats" /\ Example_0_20_100)
        => /\ StatsData.averageUtilization = 60
           /\ StatsData.allocatedResources = 2
           /\ StatsData.availableResources = 1
           /\ StatsData.overallocated = 1

\* C10: for availabilities [0, 20, 100] averageUtilization = 60,
\* allocatedResources = 2, availableResources = 2 and overallocated = 1.
C10_Example ==
    (last.op = "stats" /\ Example_0_20_100)
        => /\ StatsData.averageUtilization = 60
           /\ StatsData.allocatedResources = 2
           /\ StatsData.availableResources = 2
           /\ StatsData.overallocated = 1

\* statistics of the table [0, 20, 100] in that order
C10_Witness ==
    /\ last.op = "stats"
    /\ [i \in Rows |-> Avail(i)] = <<0, 20, 100>>
    /\ resp.success

\* name, email and password are all present in the body
Complete(data) == Truthy(data.name) /\ Truthy(data.email) /\ Truthy(data.password)

\* the user id the session in c's cookie jar holds, NoneId if none
SessionUid(c) == session_get(open_session(jar[c]), "user_id")

\* the representation of User row u: the five public fields
Representation(u) ==
    [id |-> u.id, name |-> u.name, email |-> u.email, position |-> u.position,
     createdAt |-> isoformat(u.created_at)]

C11_Refusal == Json(400, FALSE, "Name, email and password are required", <<>>)

C11_Step ==
    (last'.op = "register" /\ ~Complete(last'.data))
        => /\ resp' = C11_Refusal
           /\ users' = users
           /\ jar' = jar

C11_AnyBody ==
    \A data \in Bodies, salt \in Salts, now \in Times :
        ~Complete(data)
            => api_register(users, data, salt, now) = [resp |-> C11_Refusal, users |-> users]

\* C11: a register call whose name, email or password is absent or empty is
\* answered 400 'Name, email and password are required', whatever the other
\* fields are, and leaves the User table and every cookie jar unchanged.
C11_RegisterValidation == []C11_AnyBody /\ [][C11_Step]_vars

\* a logged-in caller's register call without a name, for a registered email,
\* was refused
C11_Witness ==
    /\ last.op = "register"
    /\ last.data.name = None
    /\ last.data.email = "john@example.com"
    /\ last.cookie # NoCookie
    /\ resp = C11_Refusal

\* an existing User has the email and the password verifies against its hash
Verified(data) ==
    LET found == User_by_email(users, data.email)
    IN  found # <<>> /\ check_password_hash(found[1].password_hash, data.password)

\* C12: a login without email or password is answered 400, a login with both
\* but no User whose email matches and whose hash verifies the password is
\* answered 401; either way the caller's cookie is what it was before.
C12_LoginFailures ==
    last.op = "login" =>
        /\ ~(Truthy(last.data.email) /\ Truthy(last.data.password))
             => /\ resp = Json(400, FALSE, "Email and password required", <<>>)
                /\ jar[last.client] = last.cookie
        /\ (Truthy(last.data.email) /\ Truthy(last.data.password) /\ ~Verified(last.data))
             => /\ resp = Json(401, FALSE, "Invalid credentials", <<>>)
                /\ jar[last.client] = last.cookie

\* a caller that holds a session sent a login with the wrong password
C12_Witness ==
    /\ last.op = "login"
    /\ last.cookie # NoCookie
    /\ last.data.email = "john@example.com"
    /\ last.data.password = "hunter2"
    /\ resp.status = 401
    /\ jar[last.client] = last.cookie

C13_State ==
    last.op = "login" =>
        LET found == User_by_email(users, last.data.email)
            granted == Truthy(last.data.email) /\ Truthy(last.data.password)
                         /\ Verified(last.data)
        IN  /\ resp.success <=> granted
            /\ granted =>
                 /\ resp = Json(200, TRUE, "", <<Representation(found[1])>>)
                 /\ SessionUid(last.client) = found[1].id
                 /\ api_me(users, open_session(jar[last.client])) = resp

C13_Step ==
    (/\ last.op = "login" /\ resp.success
     /\ last'.op = "me" /\ last'.client = last.client /\ last'.via = "jar")
        => resp' = resp

\* C13: a login succeeds exactly when a User has the email and the password
\* verifies against its hash; it then returns that User and stores its id in
\* the caller's session, and the caller's next who-am-I returns that User.
C13_LoginEstablishesSession == []C13_State /\ [][C13_Step]_vars

\* the registered user logged in and the same caller's who-am-I followed
C13_Witness ==
    /\ last.op = "me" /\ last.via = "jar"
    /\ phase[last.client] = "in"
    /\ resp.success
    /\ resp.data[1].email = "ada@example.com"

\* C14: who-am-I answers 401 when the session holds no user id, 404 when no
\* User has the id the session holds, and otherwise returns the User with
\* exactly that id.
C14_MeOutcomes ==
    last.op = "me" =>
        LET uid == session_get(CarriedSession, "user_id")
            rows == {i \in 1..Len(users) : users[i].id = uid}
        IN  IF uid = NoneId THEN resp = Json(401, FALSE, "Not authenticated", <<>>)
            ELSE IF rows = {} THEN resp = Json(404, FALSE, "User not found", <<>>)
            ELSE /\ resp.success /\ resp.status = 200
                 /\ resp.data[1].id = uid
                 /\ \E i \in rows : resp.data = <<Representation(users[i])>>

\* who-am-I with a session whose User is not in the table, others being there
C14_Witness ==
    /\ last.op = "me"
    /\ session_get(CarriedSession, "user_id") = 2
    /\ Len(users) = 2
    /\ resp.status = 404

\* C15: every session in a cookie jar or a kept cookie references the id of a
\* User in the table, and no response is 404 'User not found'.
C15_SessionsReferenceUsers ==
    /\ \A c \in Clients : SessionUid(c) # NoneId => User_get(users, SessionUid(c)) # <<>>
    /\ LET uid == session_get(open_session(kept.cookie), "user_id")
       IN  uid # NoneId => User_get(users, uid) # <<>>
    /\ resp.status # 404

\* both clients hold sessions, one of the seeded and one of a registered User
C15_Witness ==
    /\ SessionUid("c1") = 2
    /\ SessionUid("c2") = 1
    /\ last.op = "me" /\ resp.success

C16_State ==
    last.op = "logout" =>
        /\ resp = Json(200, TRUE, "", <<>>)
        /\ SessionUid(last.client) = NoneId
        /\ LET once == api_logout(open_session(last.cookie))
               twice == api_logout(once.session)
           IN  twice.resp = once.resp /\ twice.session = once.session

C16_Step ==
    (last.op = "logout" /\ last'.op = "logout" /\ last'.client = last.client)
        => /\ resp' = resp
           /\ jar' = jar
           /\ <<users, projects, resources>>' = <<users, projects, resources>>

\* C16: logout answers success=true from any session state and leaves the
\* caller without a user id in its session; a second logout right after the
\* first gives the same response and changes nothing.
C16_LogoutIdempotent == []C16_State /\ [][C16_Step]_vars

\* a logout by a client that had logged in and already logged out
C16_Witness ==
    /\ last.op = "logout"
    /\ last.cookie = NoCookie
    /\ kept.by = last.client /\ kept.stale
    /\ resp.success

\* C17: the data of a successful register, login or who-am-I is one record
\* with exactly the fields id, name, email, position and createdAt, holding
\* the values of one User row; it has no password or password-hash field.
C17_UserRepresentation ==
    (last.op \in {"register", "login", "me"} /\ resp.success)
        => /\ Len(resp.data) = 1
           /\ DOMAIN resp.data[1] = {"id", "name", "email", "position", "createdAt"}
           /\ \E i \in 1..Len(users) : resp.data[1] = Representation(users[i])

\* a register call returned the User it created
C17_Witness ==
    /\ last.op = "register"
    /\ resp.success
    /\ resp.data[1].email = "ada@example.com"
    /\ resp.data[1].createdAt = isoformat(users[2].created_at)

\* C18: who-am-I, list projects, list resources, reports and statistics
\* leave the three tables and every cookie jar unchanged; logout leaves the
\* three tables unchanged; a statistics call right after a statistics call
\* returns the same response.
C18_ReadOnlyOperations ==
    [][/\ last'.op \in {"me", "projects", "resources", "reports", "stats"}
          => <<users, projects, resources, jar>>' = <<users, projects, resources, jar>>
       /\ last'.op = "logout"
          => <<users, projects, resources>>' = <<users, projects, resources>>
       /\ (last.op = "stats" /\ last'.op = "stats") => resp' = resp]_vars

\* who-am-I answered a logged-in client while another account was registered
C18_Witness ==
    /\ last.op = "me" /\ last.via = "jar"
    /\ resp.success
    /\ jar[last.client] # NoCookie
    /\ Len(users) = 2

\* C19: when two register requests for the same email have both passed the
\* lookup and both been answered, the table holds one row for the email, one
\* request succeeded and the other was answered 400 with success=false and a
\* message.
C19_RaceAnsweredConflict ==
    (/\ \A c \in Clients : pending[c].pc = "reg_done" /\ pending[c].passed
     /\ pending["c1"].data.email = pending["c2"].data.email)
        => /\ Len(SelectSeq(users, LAMBDA u : u.email = pending["c1"].data.email)) = 1
           /\ \E c \in Clients :
                /\ pending[c].resp.success
                /\ \A o \in Clients \ {c} :
                     /\ pending[o].resp.body = "json"
                     /\ ~pending[o].resp.success
                     /\ pending[o].resp.message # ""

\* C20: the response of a statistics call, whose six queries ran interleaved
\* with the statements of register requests, is the statistics of the
\* Resource and Project tables as its first query found them.
C20_StatsConsistent ==
    \A c \in Clients :
        pending[c].pc = "stats_done"
            => pending[c].resp
                 = api_resource_stats(pending[c].snap.resources, pending[c].snap.projects)

\* a statistics call completed after a registration was committed between
\* its first and its last query
C20_Witness ==
    /\ pending["c1"].pc = "stats_done"
    /\ pending["c1"].raced
    /\ pending["c2"].pc = "reg_done"
    /\ pending["c2"].resp.success
    /\ Len(users) = 2

\* the timestamp an isoformat text stands for
Timestamp(text) == text[2]

\* C21: list projects succeeds and its data holds the representation of
\* every Project row exactly once, and of any two adjacent entries the
\* earlier one's updatedAt is greater than or equal to the later one's.
C21_ProjectsListed ==
    last.op = "projects" =>
        /\ resp.success /\ resp.status = 200
        /\ Len(resp.data) = Len(projects)
        /\ \E f \in Permutations(DOMAIN projects) :
              \A i \in DOMAIN projects : resp.data[i] = Project_to_dict(projects[f[i]])
        /\ \A i \in 1..(Len(resp.data) - 1) :
              Timestamp(resp.data[i].updatedAt) >= Timestamp(resp.data[i + 1].updatedAt)

\* a listing of three projects, the two newest updated at the same time and
\* returned in the reverse of their table order
C21_Witness ==
    /\ last.op = "projects"
    /\ [i \in DOMAIN projects |-> projects[i].updated_at] = <<1, 3, 3>>
    /\ [i \in DOMAIN resp.data |-> resp.data[i].id] = <<3, 2, 1>>

\* C22: list resources succeeds and its data holds the representation of
\* every Resource row exactly once, in the order of insertion.
C22_ResourcesListed ==
    last.op = "resources" =>
        /\ resp.success /\ resp.status = 200
        /\ Len(resp.data) = Len(resources)
        /\ \A i \in DOMAIN resources :
              resp.data[i] = [id |-> resources[i].id, name |-> resources[i].name,
                              position |-> resources[i].position,
                              availability |-> resources[i].availability,
                              currentProject |-> resources[i].current_project]

\* a listing of three resources whose availabilities are in no sorted order
C22_Witness ==
    /\ last.op = "resources"
    /\ [i \in Rows |-> Avail(i)] = <<150, 0, 20>>
    /\ [i \in DOMAIN resp.data |-> resp.data[i].availability] = <<150, 0, 20>>

\* the user id the session of the last request held when it arrived
CarriedUid == session_get(CarriedSession, "user_id")

\* the body of a login request
Credentials(email, password) == [NoData EXCEPT !.email = email, !.password = password]

C23_State ==
    /\ \A i, j \in DOMAIN users :
          i # j => users[i].email # users[j].email /\ users[i].id # users[j].id
    /\ \A i \in DOMAIN users, p \in Passwords : users[i].password_hash # Plain(p)

C23_Step ==
    (last'.op = "register" /\ resp'.success)
        => LET u == users'[Len(users')]
           IN  /\ u.email = last'.data.email
               /\ u.password_hash # Plain(last'.data.password)
               /\ \E salt \in Salts :
                     u.password_hash = generate_password_hash(last'.data.password, salt)

\* C23: in every state reached from the seeded database by register calls,
\* successful or not, no two User rows share an email or an id, and the
\* password_hash a register call stores is a salted hash of the password it
\* was sent, never the password itself.
C23_UsersWellFormed == []C23_State /\ [][C23_Step]_vars

\* an account was registered with the password the seeded account has
C23_Witness ==
    /\ last.op = "register"
    /\ resp.success
    /\ last.data.password = "password"
    /\ users[2].id = 2 /\ users[2].email = "ada@example.com"

C24_State ==
    (last.op = "register" /\ resp.success)
        => \A c \in Clients :
             LET sess == open_session(jar[c])
             IN  /\ api_login(users, sess,
                              Credentials(last.data.email, last.data.password)).resp
                      = Json(200, TRUE, "", resp.data)
                 /\ \A p \in Passwords :
                       (Truthy(p) /\ p # last.data.password)
                          => api_login(users, sess, Credentials(last.data.email, p)).resp
                               = Json(401, FALSE, "Invalid credentials", <<>>)

C24_Step ==
    (/\ last.op = "register" /\ resp.success
     /\ last'.op = "login" /\ last'.data.email = last.data.email
     /\ Truthy(last'.data.password))
        => IF last'.data.password = last.data.password
           THEN resp' = Json(200, TRUE, "", resp.data)
           ELSE resp' = Json(401, FALSE, "Invalid credentials", <<>>)

\* C24: after a successful register(name, email, password) a login with the
\* same email and password succeeds and returns the User that register
\* returned, and a login with the same email and any other (non-empty)
\* password is answered 401 'Invalid credentials'.
C24_RegisterLoginRoundTrip == []C24_State /\ [][C24_Step]_vars

\* the registered account logged in with the password it was registered with
C24_Witness ==
    /\ last.op = "login"
    /\ last.data.email = "ada@example.com"
    /\ last.data.password = "hunter2"
    /\ resp.success
    /\ resp.data[1].id = 2

\* C25: a successful register appends exactly one User row and leaves every
\* cookie jar, and so every client's who-am-I answer, as it was; a who-am-I
\* of the caller right after it is answered as it would have been before.
C25_RegisterFrame ==
    [][/\ (last'.op = "register" /\ resp'.success)
          => /\ Len(users') = Len(users) + 1
             /\ SubSeq(users', 1, Len(users)) = users
             /\ jar' = jar
             /\ \A c \in Clients :
                   api_me(users', open_session(jar'[c])) = api_me(users, open_session(jar[c]))
       /\ (/\ last.op = "register" /\ resp.success
           /\ last'.op = "me" /\ last'.client = last.client /\ last'.via = "jar")
          => IF CarriedUid = NoneId
             THEN resp' = Json(401, FALSE, "Not authenticated", <<>>)
             ELSE resp'.success /\ resp'.data[1].id = CarriedUid]_vars

\* a caller authenticated as the seeded user registered another account and
\* still holds the seeded user's session
C25_Witness ==
    /\ last.op = "register"
    /\ resp.success
    /\ resp.data[1].id = 2
    /\ CarriedUid = 1
    /\ SessionUid(last.client) = 1

C26_State ==
    \A c \in Clients :
        IF phase[c] = "in"
        THEN SessionUid(c) # NoneId /\ User_get(users, SessionUid(c)) # <<>>
        ELSE SessionUid(c) = NoneId

C26_Step ==
    LET c == last'.client
        after == session_get(open_session(jar'[c]), "user_id")
    IN  /\ (last'.op = "login" /\ resp'.success)
           => /\ after = resp'.data[1].id
              /\ resp'.data[1].email = last'.data.email
        /\ (last'.op = "login" /\ ~resp'.success)
           => /\ resp'.status \in {400, 401}
              /\ after = SessionUid(c)
        /\ last'.op = "logout" => after = NoneId
        /\ last'.op \notin {"login", "logout"} => after = SessionUid(c)

\* C26: a caller's session holds the id of the User of its most recent
\* successful login since its last logout: a successful login stores the id
\* of the User it returns whatever the session held, a failed login and every
\* other operation but logout leave the session as it was, and logout
\* empties it.
C26_SessionFollowsLogin == []C26_State /\ [][C26_Step]_vars

\* a caller authenticated as the seeded user logged in as the registered one
C26_Witness ==
    /\ last.op = "login"
    /\ resp.success
    /\ CarriedUid = 1
    /\ SessionUid(last.client) = 2

\* C27: a login, failed login or logout by one client leaves every other
\* client's cookie jar and who-am-I answer as they were.
C27_SessionsIndependent ==
    [][last'.op \in {"login", "logout"}
          => \A o \in Clients \ {last'.client} :
                /\ jar'[o] = jar[o]
                /\ api_me(users', open_session(jar'[o])) = api_me(users, open_session(jar[o]))]_vars

\* one of two clients authenticated as the same User logged out and the
\* other still holds its session
C27_Witness ==
    /\ last.op = "logout"
    /\ CarriedUid = 1
    /\ SessionUid(last.client) = NoneId
    /\ \E o \in Clients \ {last.client} : SessionUid(o) = 1

\* the reports without the time of the call
Undated(reports) ==
    [i \in DOMAIN reports |->
        [id |-> reports[i].id, name |-> reports[i].name,
         generatedBy |-> reports[i].generatedBy, type |-> reports[i].type]]

C28_State ==
    /\ last.op \in {"projects", "resources", "reports", "stats"}
          => resp.success /\ resp.status = 200
    /\ last.op = "projects"
          => \E sorted \in order_by_updated_at_desc(projects) :
                resp.data = [i \in DOMAIN sorted |-> Project_to_dict(sorted[i])]
    /\ last.op = "resources"
          => resp.data = [i \in DOMAIN resources |-> Resource_to_dict(resources[i])]
    /\ last.op = "reports"
          => \E now1 \in Times, now2 \in Times :
                resp.data = api_get_reports(now1, now2).data
    /\ last.op = "stats"
          => resp.data = api_resource_stats(resources, projects).data

C28_Step ==
    /\ (last.op = last'.op /\ last.op \in {"projects", "resources", "stats"})
          => resp' = resp
    /\ (last.op = last'.op /\ last.op = "reports")
          => resp'.success /\ Undated(resp'.data) = Undated(resp.data)

\* C28: list projects, list resources, reports and statistics succeed
\* whatever session the caller presents, with data that the tables (and, for
\* the reports' createdAt, the time of the call) determine: two calls of one
\* of them in a row return the same data whoever makes them.
C28_ListingsNotGated == []C28_State /\ [][C28_Step]_vars

\* a listing for a client that has logged out, while the other client is
\* logged in
C28_Witness ==
    /\ last.op = "projects"
    /\ phase[last.client] = "out"
    /\ \E o \in Clients \ {last.client} : phase[o] = "in"
    /\ Len(resp.data) = 3

\* C29: a run of the seeding block gives each empty store its default rows
\* (one user, three projects, three resources) and leaves each store that
\* holds rows as it was, whatever the sibling stores hold; a run on the
\* stores it produced, or right after another run, adds nothing.
C29_SeedingIdempotent ==
    [][last'.op = "init_db"
          => /\ IF users = <<>>
                THEN Len(users') = 1 /\ users'[1].email = "john@example.com"
                ELSE users' = users
             /\ IF projects = <<>> THEN Len(projects') = 3 ELSE projects' = projects
             /\ IF resources = <<>> THEN Len(resources') = 3 ELSE resources' = resources
             /\ init_db(users', projects', resources')
                  = [users |-> users', projects |-> projects', resources |-> resources']
             /\ last.op = "init_db"
                  => <<users, projects, resources>>' = <<users, projects, resources>>]_vars

\* a run that found an account registered on an empty User store: the User
\* store was left alone while the empty Project store was seeded
C29_Witness ==
    /\ last.op = "init_db"
    /\ Len(users) = 1 /\ users[1].email = "ada@example.com"
    /\ projects = SeedProjects
    /\ Len(resources) = 1

\* the statistics of the seeded tables
SeededStats ==
    [totalResources |-> 3, allocatedResources |-> 3, availableResources |-> 1,
     averageUtilization |-> 93, overallocated |-> 2, totalProjects |-> 3]

C30_State ==
    /\ api_resource_stats(resources, projects) = Json(200, TRUE, "", <<SeededStats>>)
    /\ last.op = "stats" => resp = Json(200, TRUE, "", <<SeededStats>>)

C30_Step == projects' = projects /\ resources' = resources

\* C30: no operation changes the Project or Resource table, so from the
\* seeded database the statistics are totalResources = 3,
\* allocatedResources = 3, availableResources = 1, overallocated = 2,
\* averageUtilization = 93 and totalProjects = 3 in every reachable state.
C30_SeededStatsConstant == []C30_State /\ [][C30_Step]_vars

\* statistics after an account was registered, logged in and logged out
C30_Witness ==
    /\ last.op = "stats"
    /\ Len(users) = 2
    /\ \E c \in Clients : phase[c] = "out"
    /\ resp.data = <<SeededStats>>

====
